---- MODULE Spec2Model ----
(***************************************************************************)
(* Model of the script-gallery client in src/script.js: the catalog        *)
(* fetcher (fetchScripts), the page loader (loadPage), the incremental      *)
(* update detector (pollForNewScripts), the new-count badge and the         *)
(* click/timer handlers that start them.                                    *)
(*                                                                          *)
(* The remote catalog is the environment: a list of items, newest first,    *)
(* that can grow at the top (Publish) and that answers every request with   *)
(* one page, as it held it at some moment between the request and the       *)
(* answer, or with a failure.  A request is in flight from the moment a     *)
(* handler calls fetchScripts until the continuation of its caller runs     *)
(* (LoadComplete, PollComplete); continuations run one at a time, in any    *)
(* order.                                                                   *)
(*                                                                          *)
(* A timestamp is the value of `createdAt || date` of an item: a positive   *)
(* number, or 0 when both fields are missing (every falsy value of the      *)
(* code, null, undefined and "", is 0 here, also for newestTimestamp and    *)
(* maxPages).  Timestamps are compared as the code compares them, with >.   *)
(* The grid is the sequence of the cards on screen, one per item that       *)
(* passes the search filter; filteredScripts is the sequence of their       *)
(* items.  Not modelled: styling, the badge's animation, the texts and       *)
(* images of a card other than its button and its code block.               *)
(*                                                                          *)
(* Four specifications share Init and the handlers:                         *)
(*   Spec       catalog, page loads, poll cycles, badge, toggle, buttons;   *)
(*   LiveSpec   Spec with the timers that are due eventually firing;        *)
(*   TimerSpec  Spec with the interval select;                              *)
(*   CardSpec   initial load and poll cycles with the search box and the    *)
(*              Show Code buttons of the cards.                              *)
(***************************************************************************)
EXTENDS Integers, Sequences, FiniteSets, TLC

\* ---------------------------------------------------------------- bounds
\* Items the catalog serves per page.
PageSize == 3
\* Events from outside the program in one run: publications in the catalog,
\* clicks, and ticks of the recurring timer.  The initial load, the one-shot
\* poll that follows it, the hide timers and the continuations of the fetches
\* are not counted.
MaxEvents == 3

\* Items the catalog holds at start (timestamps InitLen, ..., 1, newest first):
\* one full page and one item more.
InitLen == PageSize + 1

\* Clicks on the Show Code buttons of the cards in one run.
MaxClicks == 4

\* ------------------------------------------------------- program constants
\* setTimeout(() => showNewCount(0), 5000)
HideDelayMs == 5000
\* setTimeout(pollForNewScripts, 3000)
InitialPollDelayMs == 3000
\* let pollIntervalSeconds = 3600
InitialPollIntervalSeconds == 3600
\* code.slice(0, 15000)
CodeLimit == 15000

VARIABLES
    upstream,         \* the catalog: sequence of items, newest first
    inflight,         \* requests whose continuation has not run yet
    issued,           \* number of fetchScripts calls so far (request identity)
    events,           \* number of outside events so far
    currentPage,      \* let currentPage
    maxPages,         \* let maxPages (0: null)
    autoRefresh,      \* let autoRefresh
    pollTimer,        \* let pollTimer: "null", "live" (names a scheduled
                      \* interval) or "cleared" (names a cancelled one)
    liveIntervals,    \* number of scheduled recurring timers
    newestTimestamp,  \* let newestTimestamp, the watermark (0: unset)
    allScripts,       \* let allScripts, the Collection
    timeouts,         \* pending one-shot timers, in creation order
    badgeDisplay,     \* newCountBadge.style.display
    badgeCount,       \* the N of newCountBadge.textContent = "N new"
    refreshDisabled,  \* refreshBtn.disabled
    prevDisabled,     \* prevPage button .disabled
    nextDisabled,     \* nextPage button .disabled
    errorNotes,       \* error notifications on screen (showError)
    seenMax,          \* history: the newest timestamp a continuation has received
    last,             \* history: what the last continuation did
    pollIntervalSeconds, \* let pollIntervalSeconds
    intervalMs,       \* delay of the scheduled recurring timer (0: none scheduled)
    searchQuery,      \* let searchQuery
    grid,             \* the cards in scriptsGrid, first to last
    clicks,           \* number of clicks on Show Code buttons so far
    rawFetches        \* history: fetches of the raw source made, per item id

vars == <<upstream, inflight, issued, events, currentPage, maxPages, autoRefresh,
          pollTimer, liveIntervals, newestTimestamp, allScripts, timeouts,
          badgeDisplay, badgeCount, refreshDisabled, prevDisabled, nextDisabled,
          errorNotes, seenMax, last, pollIntervalSeconds, intervalMs, searchQuery,
          grid, clicks, rawFetches>>

selectVars == <<pollIntervalSeconds, intervalMs>>

cardVars == <<searchQuery, grid, clicks, rawFetches>>

\* ---------------------------------------------------------------- helpers
Item(i, t) == [id |-> i, ts |-> t]

\* script.createdAt || script.date
Ts(script) == script.ts

RECURSIVE Reverse(_)
Reverse(s) == IF s = <<>> THEN <<>> ELSE Append(Reverse(Tail(s)), Head(s))

Min(a, b) == IF a < b THEN a ELSE b

Max(a, b) == IF a > b THEN a ELSE b

RECURSIVE MaxTs(_)
MaxTs(s) == IF s = <<>> THEN 0
            ELSE LET m == MaxTs(Tail(s)) IN IF Ts(Head(s)) > m THEN Ts(Head(s)) ELSE m

Descending(s) == \A i \in 1..(Len(s) - 1) : Ts(s[i]) >= Ts(s[i + 1])

Range(s) == {s[i] : i \in 1..Len(s)}

\* ------------------------------------------------------------ the catalog
InitUpstream == [i \in 1..InitLen |-> Item(InitLen + 1 - i, InitLen + 1 - i)]

\* The page the catalog serves for ?page=p&orderBy=date&sort=desc.
PageOf(up, p) ==
    SubSeq(up, (p - 1) * PageSize + 1, Min(p * PageSize, Len(up)))

MaxPagesOf(up) == (Len(up) + PageSize - 1) \div PageSize

NoInfo == [currentPage |-> 0, maxPages |-> 0]

\* What can come back for a request of page p:
\*   "ok"        a JSON body {scripts: [...], info: {currentPage, maxPages}}
\*   "transport" fetch() rejects
\*   "http"      resp.ok is false
\*   "badjson"   resp.json() rejects
\*   "null"      the body is JSON null
\*   "noscripts" the body is an object without `scripts`
FailureKinds == {"transport", "http", "badjson", "null", "noscripts"}

Failure(k) == [kind |-> k, scripts |-> <<>>, info |-> NoInfo]

OkResponse(up, p) ==
    [kind |-> "ok", scripts |-> PageOf(up, p),
     info |-> [currentPage |-> p, maxPages |-> MaxPagesOf(up)]]

\* The catalog only grows at the top: what it held when it had n items.
Version(up, n) == SubSeq(up, Len(up) - n + 1, Len(up))

\* Timestamps a newly published item can carry: none (0), older than, equal to
\* or newer than the newest the catalog holds.
NewTsChoices(up) == {0, MaxTs(up) + 1} \cup {t \in {MaxTs(up) - 1, MaxTs(up)} : t > 0}

\* ------------------------------------------------------------ fetchScripts
EmptyResult == [thrown |-> FALSE, scripts |-> <<>>, info |-> NoInfo]

\* Mutant of FetchCatch: the error is thrown on to the caller.
FetchRethrow == [thrown |-> TRUE, scripts |-> <<>>, info |-> NoInfo]

\* catch (err) { console.error(...); return { scripts: [], info: {} }; }
FetchCatch == EmptyResult

\* if (!data || !data.scripts) { ...; return { scripts: [], info: {} }; }
FetchUnexpected == EmptyResult

\* The value fetchScripts' promise settles with for a raw response.
FetchScripts(resp) ==
    IF resp.kind = "transport" THEN FetchCatch           \* await fetch() throws
    ELSE IF resp.kind = "http" THEN FetchCatch           \* throw new Error(`HTTP ...`)
    ELSE IF resp.kind = "badjson" THEN FetchCatch        \* await resp.json() throws
    ELSE IF resp.kind \in {"null", "noscripts"} THEN FetchUnexpected
    ELSE [thrown |-> FALSE, scripts |-> resp.scripts, info |-> resp.info]

\* ------------------------------------------------- search filter and cards
\* The ids an item can have: the catalog starts with InitLen items and every
\* publication adds one.
ItemIds == 1..(InitLen + MaxEvents)

\* What the user can have typed in the search box: nothing, or a word.
Queries == {"", "word"}

\* Whether title, description, creator or user name of an item contain the
\* query: the word searched occurs in the items with an odd id.
Matches(script, query) == query = "" \/ script.id % 2 = 1

\* script.rawScript || "": the items whose id is a multiple of 3 have none.
HasRawUrl(script) == script.id % 3 # 0

\* A card as renderScriptCard builds it: the button reads "Show Code", the code
\* block has no inline display style and holds the placeholder text.  pending
\* counts the fetches of the raw source this card's click handler awaits,
\* chars is the length of the code shown (0 while none is shown).
FreshCard(script) ==
    [script |-> script, display |-> "", label |-> "Show Code",
     text |-> "Loading code...", chars |-> 0, pending |-> 0]

\* filteredScripts after applySearchFilter
Filter(scripts, query) == SelectSeq(scripts, LAMBDA x : Matches(x, query))

\* renderFilteredScripts: grid.innerHTML = "" and one new card per item.  The
\* cards it removes are gone from the document; a fetch one of them still
\* awaits writes to elements nobody sees and is dropped here.
RenderFilteredScripts(filtered) == [i \in 1..Len(filtered) |-> FreshCard(filtered[i])]

\* applySearchFilter
ApplySearchFilter(scripts, query) == RenderFilteredScripts(Filter(scripts, query))

\* Lengths the raw source of an item can have.
RawLengths == {CodeLimit - 1, CodeLimit + 1}

\* What can come back for the fetch of a raw source: the text, a status that
\* is not ok, or a rejection.
RawResponses ==
    {[kind |-> "ok", chars |-> n] : n \in RawLengths}
        \cup {[kind |-> "http", chars |-> 0], [kind |-> "transport", chars |-> 0]}

\* code.slice(0, 15000)
Slice(chars) == IF chars > CodeLimit THEN CodeLimit ELSE chars

\* ------------------------------------------------------------------ Init
\* last: op is the continuation that ran last ("load", "poll" or "none"), seq the
\* request it belonged to, failed whether its fetch failed, page the items
\* fetchScripts handed it, wm the watermark it found, n the number of items it
\* added as new, hi the highest seq among the page loads completed before it,
\* prev the n of the continuation before it when that was a poll cycle that
\* got the same non-empty page (-1 otherwise).
NoLast == [op |-> "none", seq |-> 0, failed |-> FALSE, page |-> <<>>, wm |-> 0,
           n |-> 0, hi |-> 0, prev |-> -1]

LastHi == IF last.op = "load" /\ last.seq > last.hi THEN last.seq ELSE last.hi

\* A request in flight: seq numbers the fetchScripts calls in the order they
\* were made, kind is the caller (loadPage or pollForNewScripts), page the page
\* asked for, origin what called the caller ("init": the DOMContentLoaded
\* handler, "refresh": the refresh button, "page": a pagination button,
\* "timer": a timer), from is the size of the catalog when the request was
\* made.
Request(s, k, p, o) ==
    [seq |-> s, kind |-> k, page |-> p, origin |-> o, from |-> Len(upstream)]

\* What the network can hand to the fetch of request r.
Responses(r) ==
    {OkResponse(Version(upstream, n), r.page) : n \in r.from..Len(upstream)}
        \cup {Failure(k) : k \in FailureKinds}

\* The values the promise of fetchScripts can settle with for request r.
FetchResults(r) == {FetchScripts(resp) : resp \in Responses(r)}

\* Whether data is what fetchScripts yields for a fetch that failed.
Failed(data) == data \in {FetchScripts(Failure(k)) : k \in FailureKinds}

\* The state when the DOMContentLoaded handler has returned: loadPage(1) has
\* been called and awaits its fetch.  The markup is not part of the source; the
\* pagination buttons start enabled, which allows every click that a markup
\* with a disabled button allows.
Init ==
    /\ upstream = InitUpstream
    /\ inflight = {Request(1, "load", 1, "init")}
    /\ issued = 1
    /\ events = 0
    /\ currentPage = 1
    /\ maxPages = 0
    /\ autoRefresh = TRUE
    /\ pollTimer = "null"
    /\ liveIntervals = 0
    /\ newestTimestamp = 0
    /\ allScripts = <<>>
    /\ timeouts = <<>>
    /\ badgeDisplay = ""
    /\ badgeCount = 0
    /\ refreshDisabled = TRUE
    /\ prevDisabled = FALSE
    /\ nextDisabled = FALSE
    /\ errorNotes = 0
    /\ seenMax = 0
    /\ last = NoLast
    /\ pollIntervalSeconds = InitialPollIntervalSeconds
    /\ intervalMs = 0
    /\ searchQuery = ""
    /\ grid = <<>>
    /\ clicks = 0
    /\ rawFetches = [i \in ItemIds |-> 0]

\* ------------------------------------------------------- the environment
\* A new item appears at the top of the catalog.
Publish(t) ==
    /\ events < MaxEvents
    /\ events' = events + 1
    /\ upstream' = <<Item(Len(upstream) + 1, t)>> \o upstream
    /\ UNCHANGED <<inflight, issued, currentPage, maxPages, autoRefresh,
                   pollTimer, liveIntervals, newestTimestamp, allScripts, timeouts,
                   badgeDisplay, badgeCount, refreshDisabled, prevDisabled,
                   nextDisabled, errorNotes, seenMax, last>>
    /\ UNCHANGED <<selectVars, cardVars>>

\* ---------------------------------------------------------- startPolling
\* clearInterval(pollTimer): cancels the interval the handle names, if any.
ClearInterval(pt, live) ==
    IF pt = "live" THEN [pollTimer |-> "cleared", live |-> live - 1]
    ELSE [pollTimer |-> pt, live |-> live]

\* Mutant of StartPolling: the timer the handle names is not cancelled.
StartPollingNoClear(pt, live, ar) ==
    IF ~ar THEN [pollTimer |-> pt, live |-> live]
    ELSE [pollTimer |-> "live", live |-> live + 1]

\* function startPolling()
StartPolling(pt, live, ar) ==
    LET c == IF pt # "null" THEN ClearInterval(pt, live)
             ELSE [pollTimer |-> pt, live |-> live]
    IN  IF ~ar THEN c
        ELSE [pollTimer |-> "live", live |-> c.live + 1]

\* The delay of the recurring timer after startPolling or clearInterval has
\* left the handle and the timers as in p: setInterval(pollForNewScripts,
\* pollIntervalSeconds * 1000) when it set one.
IntervalDelay(p, seconds) == IF p.pollTimer = "live" THEN seconds * 1000 ELSE 0

\* ----------------------------------------------------------- showNewCount
\* Mutant of ShowNewCount: showNewCount(0) shows the badge too.
ShowNewCountAlways(count) == IF count >= 0 THEN "inline-block" ELSE "none"

\* newCountBadge.style.display after showNewCount(count)
ShowNewCount(count) == IF count > 0 THEN "inline-block" ELSE "none"

\* --------------------------------------------------------------- loadPage
\* Mutant of LoadWatermark: loadPage sets the watermark only while it is unset.
LoadWatermarkOnce(scripts, wm) ==
    IF wm = 0 /\ Len(scripts) > 0 THEN Ts(scripts[1]) ELSE wm

\* The watermark after loadPage has applied `scripts`.
LoadWatermark(scripts, wm) ==
    IF Len(scripts) > 0
    THEN IF Ts(scripts[1]) # 0 THEN Ts(scripts[1]) ELSE wm
    ELSE wm

\* currentPage = data.info?.currentPage || page
LoadCurrentPage(info, page) == IF info.currentPage # 0 THEN info.currentPage ELSE page

\* loadPage(page) up to its await: setLoadingState(true), fetchScripts(page).
StartLoad(page, origin) ==
    /\ refreshDisabled' = TRUE
    /\ issued' = issued + 1
    /\ events' = events + 1
    /\ inflight' = inflight \cup {Request(issued + 1, "load", page, origin)}

\* The promise of fetchScripts settles with data and loadPage runs from its
\* await on; for the initial load the .then() callback of the
\* DOMContentLoaded handler, which runs in the same turn.
LoadComplete(r, data) ==
    /\ r \in inflight
    /\ r.kind = "load"
    /\ data \in FetchResults(r)
    /\ inflight' = inflight \ {r}
    /\ LET page == LoadCurrentPage(data.info, r.page)
       IN  /\ IF data.thrown
              THEN \* catch: showError(...)
                   /\ errorNotes' = errorNotes + 1
                   /\ UNCHANGED <<allScripts, currentPage, maxPages, prevDisabled,
                                  nextDisabled, newestTimestamp, seenMax, grid>>
              ELSE /\ allScripts' = data.scripts
                   \* grid.innerHTML = ""; applySearchFilter()
                   /\ grid' = ApplySearchFilter(data.scripts, searchQuery)
                   /\ currentPage' = page
                   /\ maxPages' = data.info.maxPages
                   \* updatePageStatus()
                   /\ prevDisabled' = (page <= 1)
                   /\ nextDisabled' = (data.info.maxPages # 0 /\ page >= data.info.maxPages)
                   /\ newestTimestamp' = LoadWatermark(data.scripts, newestTimestamp)
                   /\ seenMax' = Max(seenMax, MaxTs(data.scripts))
                   /\ UNCHANGED errorNotes
           /\ last' = [op |-> "load", seq |-> r.seq, failed |-> Failed(data),
                       page |-> data.scripts, wm |-> newestTimestamp, n |-> 0,
                       hi |-> LastHi, prev |-> -1]
    \* finally: setLoadingState(false)
    /\ refreshDisabled' = FALSE
    /\ IF r.origin = "init"
       THEN \* startPolling(); setTimeout(pollForNewScripts, 3000)
            LET p == StartPolling(pollTimer, liveIntervals, autoRefresh)
            IN  /\ pollTimer' = p.pollTimer
                /\ liveIntervals' = p.live
                /\ intervalMs' = IntervalDelay(p, pollIntervalSeconds)
                /\ timeouts' = Append(timeouts, [fn |-> "poll", ms |-> InitialPollDelayMs])
       ELSE UNCHANGED <<pollTimer, liveIntervals, intervalMs, timeouts>>
    /\ UNCHANGED <<upstream, issued, events, autoRefresh, badgeDisplay, badgeCount>>
    /\ UNCHANGED <<pollIntervalSeconds, searchQuery, clicks, rawFetches>>

\* ------------------------------------------------------ pollForNewScripts
\* The for...of loop over data.scripts from item i on: newItems collected so
\* far in acc, newestTimestamp in wm.
RECURSIVE ScanFrom(_, _, _, _)
ScanFrom(scripts, i, wm, acc) ==
    IF i > Len(scripts) THEN [newItems |-> acc, wm |-> wm]
    ELSE LET timestamp == Ts(scripts[i])
         IN  IF wm = 0
             THEN [newItems |-> acc, wm |-> timestamp]                  \* break
             ELSE IF timestamp # 0 /\ timestamp > wm
                  THEN ScanFrom(scripts, i + 1, wm, Append(acc, scripts[i]))
                  ELSE [newItems |-> acc, wm |-> wm]                    \* break

\* Mutant of Scan: without a watermark the whole page counts as new.
ScanNoBootstrap(scripts, wm) ==
    IF wm = 0 THEN [newItems |-> scripts, wm |-> wm]
    ELSE ScanFrom(scripts, 1, wm, <<>>)

\* Mutant of Scan: an item as old as the watermark counts as new.
RECURSIVE ScanFromGeq(_, _, _, _)
ScanFromGeq(scripts, i, wm, acc) ==
    IF i > Len(scripts) THEN [newItems |-> acc, wm |-> wm]
    ELSE LET timestamp == Ts(scripts[i])
         IN  IF wm = 0
             THEN [newItems |-> acc, wm |-> timestamp]
             ELSE IF timestamp # 0 /\ timestamp >= wm
                  THEN ScanFromGeq(scripts, i + 1, wm, Append(acc, scripts[i]))
                  ELSE [newItems |-> acc, wm |-> wm]

ScanGeq(scripts, wm) == ScanFromGeq(scripts, 1, wm, <<>>)

\* Mutant of Scan: an item that is not newer than the watermark is skipped and
\* the scan goes on.
RECURSIVE ScanFromSkipOlder(_, _, _, _)
ScanFromSkipOlder(scripts, i, wm, acc) ==
    IF i > Len(scripts) THEN [newItems |-> acc, wm |-> wm]
    ELSE LET timestamp == Ts(scripts[i])
         IN  IF wm = 0
             THEN [newItems |-> acc, wm |-> timestamp]
             ELSE IF timestamp # 0 /\ timestamp > wm
                  THEN ScanFromSkipOlder(scripts, i + 1, wm, Append(acc, scripts[i]))
                  ELSE IF timestamp # 0
                       THEN ScanFromSkipOlder(scripts, i + 1, wm, acc)
                       ELSE [newItems |-> acc, wm |-> wm]

ScanSkipOlder(scripts, wm) == ScanFromSkipOlder(scripts, 1, wm, <<>>)

\* Mutant of Scan: an item without a timestamp is skipped and the scan goes on.
RECURSIVE ScanFromSkipMissing(_, _, _, _)
ScanFromSkipMissing(scripts, i, wm, acc) ==
    IF i > Len(scripts) THEN [newItems |-> acc, wm |-> wm]
    ELSE LET timestamp == Ts(scripts[i])
         IN  IF wm = 0
             THEN [newItems |-> acc, wm |-> timestamp]
             ELSE IF timestamp # 0 /\ timestamp > wm
                  THEN ScanFromSkipMissing(scripts, i + 1, wm, Append(acc, scripts[i]))
                  ELSE IF timestamp = 0
                       THEN ScanFromSkipMissing(scripts, i + 1, wm, acc)
                       ELSE [newItems |-> acc, wm |-> wm]

ScanSkipMissing(scripts, wm) == ScanFromSkipMissing(scripts, 1, wm, <<>>)

Scan(scripts, wm) == ScanFrom(scripts, 1, wm, <<>>)

\* Mutant of Merge: the batch is prepended as fetched.
MergeNoReverse(newItems, all) == newItems \o all

\* allScripts = [...newItems.reverse(), ...allScripts]
Merge(newItems, all) == Reverse(newItems) \o all

\* Mutant of MergeWatermark: the watermark is not advanced.
MergeWatermarkKept(scripts, wm) == wm

\* newestTimestamp = data.scripts[0].createdAt || data.scripts[0].date || newestTimestamp
MergeWatermark(scripts, wm) == IF Ts(scripts[1]) # 0 THEN Ts(scripts[1]) ELSE wm

\* setTimeout(() => showNewCount(0), 5000)
HideTimeout == [fn |-> "hide", ms |-> HideDelayMs]

\* Mutant of PollGuard: pollForNewScripts runs whatever the flag says.
PollGuardAlways(ar) == TRUE

\* Mutant of PollGuard: pollForNewScripts always returns at once.
PollGuardNever(ar) == FALSE

\* if (!autoRefresh) return;
PollGuard(ar) == ar

\* pollForNewScripts up to its await, when PollGuard lets it run.
StartPoll ==
    /\ issued' = issued + 1
    /\ inflight' = inflight \cup {Request(issued + 1, "poll", 1, "timer")}

\* The promise of fetchScripts settles with data and pollForNewScripts runs
\* from its await on.
PollComplete(r, data) ==
    /\ r \in inflight
    /\ r.kind = "poll"
    /\ data \in FetchResults(r)
    /\ inflight' = inflight \ {r}
    /\ LET scan == Scan(data.scripts, newestTimestamp)
           found == IF data.thrown \/ Len(data.scripts) = 0 THEN 0
                    ELSE Len(scan.newItems)
       IN  /\ IF data.thrown \/ Len(data.scripts) = 0
              THEN UNCHANGED <<newestTimestamp, allScripts, badgeDisplay, badgeCount,
                               timeouts, seenMax, grid>>
              ELSE /\ seenMax' = Max(seenMax, MaxTs(data.scripts))
                   /\ IF Len(scan.newItems) > 0
                      THEN /\ allScripts' = Merge(scan.newItems, allScripts)
                           \* applySearchFilter()
                           /\ grid' = ApplySearchFilter(Merge(scan.newItems, allScripts),
                                                        searchQuery)
                           /\ newestTimestamp' = MergeWatermark(data.scripts, scan.wm)
                           \* showNewCount(newItems.length)
                           /\ badgeDisplay' = ShowNewCount(Len(scan.newItems))
                           /\ badgeCount' = Len(scan.newItems)
                           /\ timeouts' = Append(timeouts, HideTimeout)
                      ELSE /\ newestTimestamp' = scan.wm
                           /\ UNCHANGED <<allScripts, badgeDisplay, badgeCount, timeouts,
                                          grid>>
           /\ last' = [op |-> "poll", seq |-> r.seq, failed |-> Failed(data),
                       page |-> data.scripts, wm |-> newestTimestamp, n |-> found,
                       hi |-> LastHi,
                       prev |-> IF last.op = "poll" /\ last.page = data.scripts
                                   /\ Len(data.scripts) > 0
                                THEN last.n ELSE -1]
    /\ UNCHANGED <<upstream, issued, events, currentPage, maxPages, autoRefresh,
                   pollTimer, liveIntervals, refreshDisabled, prevDisabled,
                   nextDisabled, errorNotes>>
    /\ UNCHANGED <<selectVars, searchQuery, clicks, rawFetches>>

\* ------------------------------------------------------------ the handlers
\* refreshBtn click: loadPage(currentPage).  A disabled button gets no click.
RefreshClick ==
    /\ ~refreshDisabled
    /\ events < MaxEvents
    /\ StartLoad(currentPage, "refresh")
    /\ UNCHANGED <<upstream, currentPage, maxPages, autoRefresh, pollTimer,
                   liveIntervals, newestTimestamp, allScripts, timeouts, badgeDisplay,
                   badgeCount, prevDisabled, nextDisabled, errorNotes, seenMax, last>>
    /\ UNCHANGED <<selectVars, cardVars>>

\* prevPage click
PrevClick ==
    /\ ~prevDisabled
    /\ events < MaxEvents
    /\ currentPage > 1
    /\ currentPage' = currentPage - 1
    /\ StartLoad(currentPage - 1, "page")
    /\ UNCHANGED <<upstream, maxPages, autoRefresh, pollTimer, liveIntervals,
                   newestTimestamp, allScripts, timeouts, badgeDisplay, badgeCount,
                   prevDisabled, nextDisabled, errorNotes, seenMax, last>>
    /\ UNCHANGED <<selectVars, cardVars>>

\* nextPage click
NextClick ==
    /\ ~nextDisabled
    /\ events < MaxEvents
    /\ maxPages = 0 \/ currentPage < maxPages
    /\ currentPage' = currentPage + 1
    /\ StartLoad(currentPage + 1, "page")
    /\ UNCHANGED <<upstream, maxPages, autoRefresh, pollTimer, liveIntervals,
                   newestTimestamp, allScripts, timeouts, badgeDisplay, badgeCount,
                   prevDisabled, nextDisabled, errorNotes, seenMax, last>>
    /\ UNCHANGED <<selectVars, cardVars>>

\* toggleAutorefresh click
ToggleAutorefresh ==
    /\ events < MaxEvents
    /\ events' = events + 1
    /\ autoRefresh' = ~autoRefresh
    /\ LET p == IF ~autoRefresh
                THEN StartPolling(pollTimer, liveIntervals, TRUE)
                ELSE ClearInterval(pollTimer, liveIntervals)
       IN  /\ pollTimer' = p.pollTimer
           /\ liveIntervals' = p.live
           /\ intervalMs' = IntervalDelay(p, pollIntervalSeconds)
    /\ UNCHANGED <<upstream, inflight, issued, currentPage, maxPages,
                   newestTimestamp, allScripts, timeouts, badgeDisplay, badgeCount,
                   refreshDisabled, prevDisabled, nextDisabled, errorNotes, seenMax, last>>
    /\ UNCHANGED <<pollIntervalSeconds, cardVars>>

\* A tick of the recurring timer: pollForNewScripts().
IntervalTick ==
    /\ liveIntervals > 0
    /\ events < MaxEvents
    /\ events' = events + 1
    /\ IF PollGuard(autoRefresh)
       THEN StartPoll
       ELSE UNCHANGED <<issued, inflight>>                       \* return
    /\ UNCHANGED <<upstream, currentPage, maxPages, autoRefresh, pollTimer,
                   liveIntervals, newestTimestamp, allScripts, timeouts, badgeDisplay,
                   badgeCount, refreshDisabled, prevDisabled, nextDisabled, errorNotes,
                   seenMax, last>>
    /\ UNCHANGED <<selectVars, cardVars>>

\* Timers with the same delay fire in the order they were set; a timer set
\* earlier with a shorter or equal delay fires before a later one.
Due(i) == \A j \in 1..(i - 1) : timeouts[j].ms > timeouts[i].ms

Without(s, i) == SubSeq(s, 1, i - 1) \o SubSeq(s, i + 1, Len(s))

\* The one-shot poll set after the initial load fires: pollForNewScripts().
InitialPollFires(i) ==
    /\ i \in 1..Len(timeouts)
    /\ timeouts[i].fn = "poll"
    /\ Due(i)
    /\ timeouts' = Without(timeouts, i)
    /\ IF PollGuard(autoRefresh)
       THEN StartPoll
       ELSE UNCHANGED <<issued, inflight>>                              \* return
    /\ UNCHANGED <<upstream, events, currentPage, maxPages, autoRefresh, pollTimer,
                   liveIntervals, newestTimestamp, allScripts, badgeDisplay, badgeCount,
                   refreshDisabled, prevDisabled, nextDisabled, errorNotes, seenMax, last>>
    /\ UNCHANGED <<selectVars, cardVars>>

\* A hide timer fires: showNewCount(0).
HideFires(i) ==
    /\ i \in 1..Len(timeouts)
    /\ timeouts[i].fn = "hide"
    /\ Due(i)
    /\ timeouts' = Without(timeouts, i)
    /\ badgeDisplay' = ShowNewCount(0)
    /\ UNCHANGED <<upstream, inflight, issued, events, currentPage, maxPages,
                   autoRefresh, pollTimer, liveIntervals, newestTimestamp, allScripts,
                   badgeCount, refreshDisabled, prevDisabled, nextDisabled, errorNotes,
                   seenMax, last>>
    /\ UNCHANGED <<selectVars, cardVars>>

\* newCountBadge click: showNewCount(0).  A badge with display none gets no click.
BadgeClick ==
    /\ badgeDisplay # "none"
    /\ events < MaxEvents
    /\ events' = events + 1
    /\ badgeDisplay' = ShowNewCount(0)
    /\ UNCHANGED <<upstream, inflight, issued, currentPage, maxPages,
                   autoRefresh, pollTimer, liveIntervals, newestTimestamp, allScripts,
                   timeouts, badgeCount, refreshDisabled, prevDisabled, nextDisabled,
                   errorNotes, seenMax, last>>
    /\ UNCHANGED <<selectVars, cardVars>>

\* ------------------------------------------- interval select, search, cards
\* The values of the options of intervalSelect, in seconds.
IntervalChoices == {60, InitialPollIntervalSeconds}

\* intervalSelect change: pollIntervalSeconds = Number(e.target.value);
\* startPolling().
IntervalChange(seconds) ==
    /\ events < MaxEvents
    /\ events' = events + 1
    /\ pollIntervalSeconds' = seconds
    /\ LET p == StartPolling(pollTimer, liveIntervals, autoRefresh)
       IN  /\ pollTimer' = p.pollTimer
           /\ liveIntervals' = p.live
           /\ intervalMs' = IntervalDelay(p, seconds)
    /\ UNCHANGED <<upstream, inflight, issued, currentPage, maxPages, autoRefresh,
                   newestTimestamp, allScripts, timeouts, badgeDisplay, badgeCount,
                   refreshDisabled, prevDisabled, nextDisabled, errorNotes, seenMax, last>>
    /\ UNCHANGED cardVars

\* searchInput input: searchQuery = e.target.value; applySearchFilter().
SearchInput(query) ==
    /\ events < MaxEvents
    /\ events' = events + 1
    /\ query # searchQuery
    /\ searchQuery' = query
    /\ grid' = ApplySearchFilter(allScripts, query)
    /\ UNCHANGED <<upstream, inflight, issued, currentPage, maxPages, autoRefresh,
                   pollTimer, liveIntervals, newestTimestamp, allScripts, timeouts,
                   badgeDisplay, badgeCount, refreshDisabled, prevDisabled, nextDisabled,
                   errorNotes, seenMax, last>>
    /\ UNCHANGED <<selectVars, clicks, rawFetches>>

\* clearSearch click: searchQuery = ""; applySearchFilter().  The button is
\* shown while the query is not empty.
ClearSearch ==
    /\ events < MaxEvents
    /\ events' = events + 1
    /\ searchQuery # ""
    /\ searchQuery' = ""
    /\ grid' = ApplySearchFilter(allScripts, "")
    /\ UNCHANGED <<upstream, inflight, issued, currentPage, maxPages, autoRefresh,
                   pollTimer, liveIntervals, newestTimestamp, allScripts, timeouts,
                   badgeDisplay, badgeCount, refreshDisabled, prevDisabled, nextDisabled,
                   errorNotes, seenMax, last>>
    /\ UNCHANGED <<selectVars, clicks, rawFetches>>

\* Whether the click handler of a card's button fetches the raw source: the
\* code block was hidden by an inline style, still holds the placeholder and
\* has a raw URL.
FetchesRaw(card) ==
    /\ card.display = "none"
    /\ card.text = "Loading code..."
    /\ HasRawUrl(card.script)

\* The card after the click handler of its button has run up to its await (or
\* to its end): isVisible = codeBlock.style.display !== "none".
ShowCodeClick(card) ==
    IF card.display # "none"
    THEN [card EXCEPT !.display = "none", !.label = "Show Code"]
    ELSE IF card.text = "Loading code..."
         THEN IF HasRawUrl(card.script)
              THEN [card EXCEPT !.display = "block", !.label = "Loading...",
                                !.pending = @ + 1]
              ELSE [card EXCEPT !.display = "block", !.label = "Hide Code",
                                !.text = "// No raw script URL available"]
         ELSE [card EXCEPT !.display = "block", !.label = "Hide Code"]

\* The card after the click handler has run from its await on with the
\* answer resp.
RawLoaded(card, resp) ==
    [card EXCEPT !.pending = @ - 1,
                 !.label = "Hide Code",
                 !.text = IF resp.kind = "ok" THEN "code"
                          ELSE IF resp.kind = "http" THEN "// Failed to load code"
                          ELSE "// Error loading code",
                 !.chars = IF resp.kind = "ok" THEN Slice(resp.chars) ELSE 0]

\* A click on the Show Code button of card i.
CardClick(i) ==
    /\ clicks < MaxClicks
    /\ i \in 1..Len(grid)
    /\ clicks' = clicks + 1
    /\ grid' = [grid EXCEPT ![i] = ShowCodeClick(grid[i])]
    /\ rawFetches' = IF FetchesRaw(grid[i])
                     THEN [rawFetches EXCEPT ![grid[i].script.id] = @ + 1]
                     ELSE rawFetches
    /\ UNCHANGED <<upstream, inflight, issued, events, currentPage, maxPages,
                   autoRefresh, pollTimer, liveIntervals, newestTimestamp, allScripts,
                   timeouts, badgeDisplay, badgeCount, refreshDisabled, prevDisabled,
                   nextDisabled, errorNotes, seenMax, last>>
    /\ UNCHANGED <<selectVars, searchQuery>>

\* The fetch of the raw source that card i awaits settles with resp.
RawComplete(i, resp) ==
    /\ i \in 1..Len(grid)
    /\ grid[i].pending > 0
    /\ resp \in RawResponses
    /\ grid' = [grid EXCEPT ![i] = RawLoaded(grid[i], resp)]
    /\ UNCHANGED <<upstream, inflight, issued, events, currentPage, maxPages,
                   autoRefresh, pollTimer, liveIntervals, newestTimestamp, allScripts,
                   timeouts, badgeDisplay, badgeCount, refreshDisabled, prevDisabled,
                   nextDisabled, errorNotes, seenMax, last>>
    /\ UNCHANGED <<selectVars, searchQuery, clicks, rawFetches>>

\* ------------------------------------------------------------------ Next
Publishes == \E t \in NewTsChoices(upstream) : Publish(t)

LoadCompletes == \E r \in inflight : \E data \in FetchResults(r) : LoadComplete(r, data)

PollCompletes == \E r \in inflight : \E data \in FetchResults(r) : PollComplete(r, data)

InitialPollTimer == \E i \in 1..Len(timeouts) : InitialPollFires(i)

HideTimer == \E i \in 1..Len(timeouts) : HideFires(i)

Next ==
    \/ Publishes
    \/ LoadCompletes
    \/ PollCompletes
    \/ RefreshClick
    \/ PrevClick
    \/ NextClick
    \/ ToggleAutorefresh
    \/ IntervalTick
    \/ InitialPollTimer
    \/ HideTimer
    \/ BadgeClick

Spec == Init /\ [][Next]_vars

IntervalChanges == \E seconds \in IntervalChoices : IntervalChange(seconds)

SearchInputs == \E query \in Queries : SearchInput(query)

CardClicks == \E i \in 1..Len(grid) : CardClick(i)

RawCompletes == \E i \in 1..Len(grid) : \E resp \in RawResponses : RawComplete(i, resp)

\* Next leaves the interval select, the search box and the cards alone: their
\* handlers write pollIntervalSeconds, the recurring timer, searchQuery and
\* the grid only, and Next reads none of these but the timer.

\* The program with a user who also changes the poll interval.
TimerNext ==
    \/ Next
    \/ IntervalChanges

TimerSpec == Init /\ [][TimerNext]_vars

\* The program with a user who searches and clicks the Show Code buttons and
\* leaves the other controls alone: the initial load, the one-shot poll that
\* follows it, publications, the search box and the cards.
CardNext ==
    \/ Publishes
    \/ LoadCompletes
    \/ PollCompletes
    \/ InitialPollTimer
    \/ HideTimer
    \/ SearchInputs
    \/ ClearSearch
    \/ CardClicks
    \/ RawCompletes

CardSpec == Init /\ [][CardNext]_vars

\* The browser runs every timer that is due: a pending setTimeout callback is
\* not postponed for ever.
LiveSpec == Spec /\ WF_vars(InitialPollTimer) /\ WF_vars(HideTimer)

\* ================================================================ claims
Shown == badgeDisplay = "inline-block"

\* The items of a page that are strictly newer than a watermark.
Newer(scripts, wm) == SelectSeq(scripts, LAMBDA x : Ts(x) > wm)

\* The requests whose continuation runs in a step.
Completed == inflight \ inflight'

\* A step that runs pollForNewScripts from its await on.
PollDone == \E r \in Completed : r.kind = "poll"

\* A step that runs loadPage from its await on.
LoadDone == \E r \in Completed : r.kind = "load"

\* The items fetchScripts handed to the continuation that runs in a step.
Fetched == last'.page

\* The number of items a step puts in front of the Collection.
Added == Len(allScripts') - Len(allScripts)

\* C1 (bootstrap): a poll cycle that completes with a non-empty page while the
\* watermark is unset sets the watermark to the timestamp of the first item of
\* the page, leaves the Collection as it is and reports nothing: the badge is
\* not shown and no hide timer is set.
C1_Bootstrap ==
    [][(PollDone /\ newestTimestamp = 0 /\ Len(Fetched) > 0) =>
            /\ newestTimestamp' = Ts(Fetched[1])
            /\ allScripts' = allScripts
            /\ ~Shown'
            /\ badgeCount' = badgeCount
            /\ timeouts' = timeouts]_vars

\* A poll cycle has bootstrapped: it found no watermark, got a page whose first
\* item has a timestamp, adopted that timestamp and added nothing.
C1_Witness ==
    /\ last.op = "poll"
    /\ last.wm = 0
    /\ Len(last.page) > 1
    /\ newestTimestamp = Ts(last.page[1])
    /\ newestTimestamp # 0
    /\ last.n = 0
    /\ allScripts = <<>>

\* C2 (monotonicity of poll cycles): a poll cycle that adds N > 0 items leaves
\* the watermark at the timestamp of item 0 of the page it fetched, whatever N
\* is, and a poll cycle whose page holds only items with timestamps less than
\* or equal to the watermark leaves the watermark unchanged.
C2_PollMonotone ==
    [][PollDone =>
            /\ Added > 0 => /\ newestTimestamp' = Ts(Fetched[1])
                            /\ newestTimestamp' > newestTimestamp
            /\ (\A i \in 1..Len(Fetched) : Ts(Fetched[i]) <= newestTimestamp)
                   => newestTimestamp' = newestTimestamp]_vars

\* A poll cycle that found only older or equal items ran after a cycle that
\* had reported new items, and the watermark is where that cycle left it.
C2_Witness ==
    /\ last.op = "poll"
    /\ last.n = 0
    /\ Len(last.page) > 0
    /\ badgeCount > 1
    /\ \A i \in 1..Len(last.page) : Ts(last.page[i]) <= last.wm
    /\ newestTimestamp = last.wm
    /\ newestTimestamp = Ts(last.page[1])

\* C3 (ordering of a merge): when a poll cycle with a watermark set gets a page
\* in descending timestamp order, the items of the page strictly newer than the
\* watermark stand at the front of the Collection in ascending timestamp
\* order, oldest first, followed by the previous Collection in its order.
C3_MergeOrder ==
    [][(PollDone /\ newestTimestamp # 0 /\ Descending(Fetched)) =>
            LET newer == Newer(Fetched, newestTimestamp)
                k == Len(newer)
            IN  /\ Len(allScripts') = k + Len(allScripts)
                /\ \A i \in 1..k : allScripts'[i] = newer[k + 1 - i]
                /\ \A i \in 1..(k - 1) : Ts(allScripts'[i]) <= Ts(allScripts'[i + 1])
                /\ \A i \in 1..Len(allScripts) : allScripts'[k + i] = allScripts[i]]_vars

\* The example of the specification: a page [t5,t4,t3] met the watermark t3 and
\* the Collection starts with t4, t5, then the old items.
C3_Witness ==
    /\ last.op = "poll"
    /\ last.n = 2
    /\ Len(last.page) = 3
    /\ Descending(last.page)
    /\ Ts(last.page[3]) = last.wm
    /\ Len(allScripts) > 2
    /\ allScripts[1] = last.page[2]
    /\ allScripts[2] = last.page[1]
    /\ Ts(allScripts[1]) < Ts(allScripts[2])
    /\ Ts(allScripts[3]) = last.wm

C5_WatermarkLifecycle ==
    /\ newestTimestamp = 0
    /\ [][Descending(upstream) =>
            /\ newestTimestamp' >= newestTimestamp
            /\ (LoadDone /\ newestTimestamp # 0)
                   => newestTimestamp' = newestTimestamp]_vars

\* C6 (only new items are reported): every item a poll cycle puts in front of
\* the Collection, and counts in the badge, has a timestamp strictly greater
\* than the timestamp of every item an earlier page load or poll cycle
\* received, also when the catalog stays in descending timestamp order.
C6_OnlyNewReported ==
    [][(PollDone /\ Descending(upstream)) =>
            \A k \in 1..Added : Ts(allScripts'[k]) > seenMax]_vars

\* C7 (fetchScripts never throws): whatever the failure (the transport, a
\* non-success status, a body that is no JSON, is null or lacks `scripts`), the
\* caller's continuation runs with an empty item sequence and empty metadata
\* and its catch block does not: loadPage ends with an empty Collection, the
\* requested page as current page, no page count and no error notification,
\* and pollForNewScripts changes nothing.
C7_FetchNeverThrows ==
    [][\A r \in Completed :
        /\ (r.kind = "load" /\ last'.failed) =>
               /\ errorNotes' = errorNotes
               /\ allScripts' = <<>>
               /\ currentPage' = r.page
               /\ maxPages' = 0
               /\ newestTimestamp' = newestTimestamp
               /\ ~refreshDisabled'
        /\ (r.kind = "poll" /\ last'.failed) =>
               /\ errorNotes' = errorNotes
               /\ UNCHANGED <<allScripts, newestTimestamp, badgeDisplay, badgeCount,
                              timeouts, currentPage, maxPages>>]_vars

\* A page load whose fetch failed has completed after a successful one: the
\* Collection it had filled is empty, the page count is gone and no error
\* notification is on screen.
C7_Witness ==
    /\ last.op = "load"
    /\ last.failed
    /\ last.page = <<>>
    /\ last.wm # 0
    /\ maxPages = 0
    /\ allScripts = <<>>
    /\ errorNotes = 0
    /\ ~refreshDisabled

HidePending == \E i \in 1..Len(timeouts) : timeouts[i].fn = "hide"

\* C8 (notification auto-clear): every poll cycle that reports N > 0 shows the
\* badge and sets a timer of its own with the fixed delay of 5 seconds behind
\* the timers already pending; no step but the firing of a hide timer removes
\* one, every hide timer that fires hides the badge, whatever poll cycles ran
\* in between, and a shown badge always has a hide timer pending; hence a
\* shown badge is eventually hidden.
C8_BadgeAutoClear ==
    /\ [][/\ (PollDone /\ Added > 0) =>
                   /\ Shown'
                   /\ badgeCount' = Added
                   /\ timeouts' = Append(timeouts, [fn |-> "hide", ms |-> 5000])
           /\ \A i \in 1..Len(timeouts) :
               /\ HideFires(i) => badgeDisplay' = "none"
               /\ (timeouts[i].fn = "hide" /\ ~HideFires(i)) =>
                      \E j \in 1..Len(timeouts') : timeouts'[j] = timeouts[i]]_vars
    /\ [](Shown => HidePending)
    /\ (Shown ~> ~Shown)

\* Two poll cycles have reported within one delay: the badge shows the count
\* of the second and the timers of both are pending.
C8_Witness ==
    /\ Shown
    /\ Len(timeouts) = 2
    /\ \A i \in 1..2 : timeouts[i] = [fn |-> "hide", ms |-> 5000]
    /\ last.op = "poll"
    /\ badgeCount = last.n

\* C9 (out-of-order completion): the continuation of a page load applies what
\* it fetched whichever request was made last: the Collection becomes the
\* fetched page, the current page the page it asked for, the watermark the
\* timestamp of the first item; so a page load made earlier can complete after
\* one made later and replace its data.
C9_LastCallbackWins ==
    [][\A r \in Completed :
        (r.kind = "load" /\ ~last'.failed) =>
            /\ allScripts' = Fetched
            /\ currentPage' = r.page
            /\ (Len(Fetched) > 0 /\ Ts(Fetched[1]) # 0)
                   => newestTimestamp' = Ts(Fetched[1])]_vars

\* No fetch is in flight and no one-shot poll is pending; the page load that
\* completed last was made before another that had completed already, and its
\* page is the Collection, its page number the current page, its first
\* timestamp the watermark.
C9_Witness ==
    /\ inflight = {}
    /\ timeouts = <<>>
    /\ last.op = "load"
    /\ last.seq < last.hi
    /\ Len(last.page) > 0
    /\ allScripts = last.page
    /\ newestTimestamp = Ts(last.page[1])
    /\ newestTimestamp < last.wm
    /\ currentPage = 2

\* C10 (idempotence of polling): when a poll cycle completes right after
\* another poll cycle, no page load completing in between, and gets the page
\* the first one got, it adds nothing to the Collection, reports nothing and
\* leaves the watermark unchanged.
C10_PollIdempotent ==
    [][(PollDone /\ last.op = "poll" /\ ~last'.failed /\ last.page = Fetched) =>
                UNCHANGED <<allScripts, newestTimestamp, badgeDisplay, badgeCount,
                            timeouts>>]_vars

\* A poll cycle added two or more items and the next one, with the same page,
\* added none.
C10_Witness ==
    /\ last.op = "poll"
    /\ last.prev > 1
    /\ last.n = 0
    /\ Len(allScripts) > 2
    /\ newestTimestamp = Ts(last.page[1])

\* C11 (early termination): in a poll cycle with a watermark set, when item i
\* of the page has a timestamp that is not strictly greater than the watermark,
\* fewer than i items are added, and the items added are the items before the
\* first such position, whatever the timestamps of the later items are.
C11_EarlyTermination ==
    [][(PollDone /\ newestTimestamp # 0) =>
        \A i \in 1..Len(Fetched) :
            ~(Ts(Fetched[i]) > newestTimestamp) =>
                /\ Added < i
                /\ badgeCount' # badgeCount => badgeCount' < i
                /\ \A k \in 1..Added : allScripts'[k] = Fetched[Added + 1 - k]]_vars

\* A poll cycle stopped at an item with a timestamp not newer than the
\* watermark and an item behind it, newer than the watermark, was not added.
C11_Witness ==
    /\ last.op = "poll"
    /\ last.wm # 0
    /\ \E i \in 1..Len(last.page) : \E j \in (i + 1)..Len(last.page) :
           /\ Ts(last.page[i]) # 0
           /\ Ts(last.page[i]) <= last.wm
           /\ Ts(last.page[j]) > last.wm
           /\ last.n = i - 1
           /\ last.page[j] \notin Range(allScripts)

\* C17 (missing timestamp stops the scan): in a poll cycle with a watermark
\* set, when item i of the page has no timestamp, neither item i nor any item
\* behind it is among the items the cycle adds, and the cycle counts fewer
\* than i new items.
C17_MissingTimestampStops ==
    [][(PollDone /\ newestTimestamp # 0) =>
        \A i \in 1..Len(Fetched) :
            Ts(Fetched[i]) = 0 =>
                /\ Added < i
                /\ \A j \in i..Len(Fetched) : \A k \in 1..Added :
                       allScripts'[k] # Fetched[j]]_vars

\* A poll cycle stopped at an item without a timestamp and an item behind it,
\* newer than the watermark, was not added.
C17_Witness ==
    /\ last.op = "poll"
    /\ last.wm # 0
    /\ \E i \in 1..Len(last.page) : \E j \in (i + 1)..Len(last.page) :
           /\ Ts(last.page[i]) = 0
           /\ Ts(last.page[j]) > last.wm
           /\ last.n = i - 1
           /\ last.page[j] \notin Range(allScripts)

\* The catalog is as the claim C18 assumes: in descending timestamp order and
\* every item with a timestamp (item ids are unique by construction and the
\* catalog only grows at the top).
WellFormed(up) == Descending(up) /\ \A i \in 1..Len(up) : Ts(up[i]) # 0

NoDuplicates(s) == \A i \in 1..Len(s) : \A j \in 1..Len(s) : s[i] = s[j] => i = j

\* C18 (no duplicates): while the catalog is in descending timestamp order and
\* every item has a timestamp, the Collection holds no item twice, and when it
\* is not empty the watermark is set and no item of the Collection has a
\* timestamp greater than the watermark.
C18_NoDuplicates ==
    WellFormed(upstream) =>
        /\ NoDuplicates(allScripts)
        /\ allScripts # <<>> =>
               /\ newestTimestamp # 0
               /\ \A i \in 1..Len(allScripts) : Ts(allScripts[i]) <= newestTimestamp

\* With a well-formed catalog a poll cycle has merged two or more items in
\* front of a Collection that was not empty, and the watermark is the newest
\* timestamp of the Collection.
C18_Witness ==
    /\ WellFormed(upstream)
    /\ last.op = "poll"
    /\ last.n >= 2
    /\ Len(allScripts) > last.n
    /\ NoDuplicates(allScripts)
    /\ newestTimestamp = MaxTs(allScripts)

\* The requests a step puts in flight.
Issued == inflight' \ inflight

\* A step in which pollForNewScripts calls fetchScripts.
PollIssued == \E r \in Issued : r.kind = "poll"

\* A step in which the one-shot poll set after the initial load fires.
OneShotFires ==
    \E i \in 1..Len(timeouts) : timeouts[i].fn = "poll" /\ timeouts' = Without(timeouts, i)

\* C12 (auto-refresh off means no polling): no step made while the flag is off
\* issues a poll fetch; when the one-shot poll or a tick of the recurring
\* timer runs pollForNewScripts, the value the flag has at that moment decides:
\* off, no fetch is issued and the Collection, the watermark and the badge stay
\* as they are; on, the fetch of page 1 is issued.
C12_OffMeansNoPolling ==
    [][/\ ~autoRefresh => ~PollIssued
       /\ (OneShotFires \/ IntervalTick) =>
              IF autoRefresh
              THEN PollIssued
              ELSE UNCHANGED <<inflight, issued, allScripts, newestTimestamp,
                               badgeDisplay, badgeCount>>]_vars

\* The one-shot poll has fired with auto-refresh switched off before it: the
\* initial load is the only fetch ever made.
C12_Witness ==
    /\ ~autoRefresh
    /\ last.op = "load"
    /\ last.seq = 1
    /\ timeouts = <<>>
    /\ inflight = {}
    /\ issued = 1
    /\ liveIntervals = 0

\* C16 (a failed or empty poll is a no-op that does not stop polling): a poll
\* cycle whose fetch fails or yields no items leaves the Collection, the
\* watermark, the badge, the pending timers, the recurring timer and the
\* auto-refresh flag as they are, and every tick of the recurring timer issues
\* the fetch of a poll cycle.
C16_FailedPollNoOp ==
    [][/\ (PollDone /\ (last'.failed \/ Fetched = <<>>)) =>
              UNCHANGED <<allScripts, newestTimestamp, badgeDisplay, badgeCount,
                          timeouts, pollTimer, liveIntervals, autoRefresh>>
       /\ IntervalTick => PollIssued]_vars

\* After a poll cycle whose fetch failed, with the Collection and the watermark
\* of the initial load intact and the recurring timer scheduled, the next poll
\* cycle is in flight.
C16_Witness ==
    /\ last.op = "poll"
    /\ last.failed
    /\ liveIntervals = 1
    /\ autoRefresh
    /\ Len(allScripts) = PageSize
    /\ newestTimestamp = Ts(allScripts[1])
    /\ newestTimestamp # 0
    /\ ~Shown
    /\ \E r \in inflight : r.kind = "poll" /\ r.seq > last.seq

\* C14 (a manual-refresh failure is shown to the user): when the continuation
\* of a page load started by the refresh button runs after its fetch failed,
\* an error notification is put on screen.
C14_RefreshFailureShown ==
    [][\A r \in Completed :
        (r.kind = "load" /\ r.origin = "refresh" /\ last'.failed) =>
            errorNotes' > errorNotes]_vars

\* C13 (timer cancellation): at most one recurring poll timer is scheduled and
\* none while auto-refresh is off; a scheduled timer is the one pollTimer
\* names and runs with the current poll interval; and while auto-refresh is
\* on a timer is scheduled, except before the initial load has completed when
\* neither the toggle nor the interval select has been used.
C13_SingleTimer ==
    /\ liveIntervals <= 1
    /\ ~autoRefresh => liveIntervals = 0
    /\ liveIntervals = 1 =>
           /\ pollTimer = "live"
           /\ intervalMs = pollIntervalSeconds * 1000
    /\ liveIntervals = 0 => intervalMs = 0
    /\ (autoRefresh /\ liveIntervals = 0) =>
           /\ pollTimer = "null"
           /\ \E r \in inflight : r.origin = "init"

\* Three events on the toggle, the interval select and the badge, at least
\* one of them a change of the interval and none a tick, and the completion
\* of the initial load have happened, auto-refresh is on, and one timer with
\* the new interval is scheduled.
C13_Witness ==
    /\ events = 3
    /\ autoRefresh
    /\ pollIntervalSeconds = 60
    /\ pollIntervalSeconds # InitialPollIntervalSeconds
    /\ liveIntervals = 1
    /\ intervalMs = 60000
    /\ last.op = "load"
    /\ last.seq = 1
    /\ issued = 1
    /\ upstream = InitUpstream
    /\ timeouts # <<>>

\* C15 (the raw source is fetched once per item): over any sequence of clicks,
\* re-renderings and answers, the raw source of no item has been fetched more
\* than once, and the code a card shows is at most 15,000 characters long.
C15_RawFetchedOnce ==
    /\ \A id \in ItemIds : rawFetches[id] <= 1
    /\ \A i \in 1..Len(grid) : grid[i].chars <= 15000

\* C19 (the card label matches the card state): every card that awaits no
\* fetch of the raw source reads "Hide Code" when the display of its code block
\* is "block" and "Show Code" otherwise.
C19_LabelMatchesState ==
    \A i \in 1..Len(grid) :
        grid[i].pending = 0 =>
            grid[i].label = IF grid[i].display = "block" THEN "Hide Code"
                            ELSE "Show Code"

\* C20 (the first click reveals): a click on a button that reads "Show Code"
\* leaves the code block with display "block" and the button with another
\* label, and on a freshly rendered card of an item with a raw URL it starts
\* the fetch of the raw source.
C20_FirstClickReveals ==
    [][\A i \in 1..Len(grid) :
        (CardClick(i) /\ grid[i].label = "Show Code") =>
            /\ grid'[i].display = "block"
            /\ grid'[i].label \in {"Hide Code", "Loading..."}
            /\ (grid[i] = FreshCard(grid[i].script) /\ HasRawUrl(grid[i].script))
                   => rawFetches'[grid[i].script.id] = rawFetches[grid[i].script.id] + 1]_vars

====
